---- MODULE Spec2Model ----
(***************************************************************************)
(* Cart, order placement and stock handlers of the e-commerce backend,     *)
(* over the document store (Product, ProductVariant, Cart, Order,          *)
(* OrderProduct collections).                                              *)
(*                                                                         *)
(* A createOrder request is modelled step by step, one step per awaited    *)
(* store operation, so that requests can interleave.  The cart and catalog *)
(* handlers are one action each.                                           *)
(*                                                                         *)
(* SpecCart runs the cart and catalog handlers one request at a time.      *)
(* Spec     runs the handlers one request at a time: cart and catalog      *)
(*          requests, then the createOrder requests one after the other.   *)
(* SpecConc fills the carts, then lets the steps of the createOrder        *)
(*          requests interleave.                                           *)
(* SpecAdmin  fills the carts, handles one createOrder request and then    *)
(*            runs the catalog handlers on the store the order left.       *)
(* SpecStatus fills the carts, handles one createOrder request and then    *)
(*            runs updateOrderStatus requests.                             *)
(* SpecAccess fills the carts, then lets the steps of getCart requests     *)
(*            interleave.                                                  *)
(* SpecFail   fills the carts, then handles one createOrder request and    *)
(*            payment webhooks one after the other; any awaited store      *)
(*            operation may fail.                                          *)
(* SpecRetry  fills the carts, then handles a createOrder request that may *)
(*            fail and a second createOrder request after it.              *)
(* SpecRecommend  lets the steps of recommendProducts requests interleave; *)
(*            the recommendation service may fail.                         *)
(* SpecRevision  runs the cart handlers and createOrder in its             *)
(*            product-stock revision one request at a time.                *)
(* SpecSeed   seeds the catalog with initializeProducts and runs the cart  *)
(*            and catalog handlers on it.                                  *)
(* SpecRace   fills the carts, then lets the steps of one createOrder      *)
(*            request and of restockVariant requests interleave.           *)
(***************************************************************************)
EXTENDS Integers, Sequences, FiniteSets, TLC

(***************************************************************************)
(* Bounds of the model.                                                    *)
(***************************************************************************)
\* Largest stock quantity of a variant and largest quantity of a cart line.
MaxQty == 2
\* Largest number of orders createOrder in its product-stock revision places.
MaxOrders == 2

Users == {"u1", "u2"}
ProductIds == {"p1"}
VariantIds == {"v1", "v2"}
Sizes == {"S", "M"}
Colors == {"White", "Black"}
\* Prices a product may carry.
Prices == {1, 2}
\* Quantities a request body may carry (0 and a negative one included).
ReqQuantities == {-1, 0, 1, 2}
\* The requests of a behaviour that are handled step by step, in arrival
\* order.
Requests == {1, 2}
\* Order ids and statuses an updateOrderStatus request body may carry.
ReqOrderIds == {1, 2}
ReqStatuses == {"In-transit", "Cancel", "Shipped"}

VARIABLES
  products,       \* Product collection: _id -> [price, totalStock]
  variants,       \* ProductVariant collection: _id -> [productId, size, color, quantity]
  carts,          \* Cart collection by user field, each in insertion order: [items, totalAmount]
  orders,         \* Order collection, in insertion order: [userId, total, status]
  orderProducts,  \* OrderProduct collection: set of [orderId, line, productId, quantity, price]
  req             \* the requests handled step by step: position and local variables

vars == <<products, variants, carts, orders, orderProducts, req>>
store == <<products, variants, carts, orders, orderProducts>>

(***************************************************************************)
(* The catalog as seeded: one product with a variant per size.             *)
(***************************************************************************)
SeedProduct(v) == "p1"
SeedSize(v) == IF v = "v2" THEN "M" ELSE "S"
SeedColor(v) == "White"

RECURSIVE SumQty(_, _)
SumQty(vs, S) ==
  IF S = {} THEN 0
  ELSE LET v == CHOOSE x \in S : TRUE
       IN vs[v].quantity + SumQty(vs, S \ {v})

\* variants.reduce((total, variant) => total + variant.quantity, 0) over
\* ProductVariant.find({ productId })
VariantsOf(vs, p) == {v \in DOMAIN vs : vs[v].productId = p}
StockSum(vs, p) == SumQty(vs, VariantsOf(vs, p))

NoSnapshot == [products |-> <<>>, variants |-> <<>>, carts |-> <<>>,
               orders |-> <<>>, orderProducts |-> {}]
NewReq == [pc |-> "new", user |-> "none", items |-> <<>>, totalAmount |-> 0,
           i |-> 0, orderItems |-> <<>>, orderId |-> 0, created |-> {},
           status |-> "none", pre |-> NoSnapshot,
           variant |-> "none", quantity |-> 0]
ClosedReq == [NewReq EXCEPT !.pc = "closed"]

Init ==
  /\ \E price \in [ProductIds -> Prices], qty \in [VariantIds -> 1..MaxQty] :
       LET seeded == [v \in VariantIds |->
                        [productId |-> SeedProduct(v), size |-> SeedSize(v),
                         color |-> SeedColor(v), quantity |-> qty[v]]]
       IN /\ variants = seeded
          /\ products = [p \in ProductIds |->
                           [price |-> price[p], totalStock |-> StockSum(seeded, p)]]
  /\ carts = [u \in Users |-> <<>>]
  /\ orders = <<>>
  /\ orderProducts = {}
  /\ req = [r \in Requests |-> NewReq]

(***************************************************************************)
(* Store queries.                                                          *)
(***************************************************************************)
\* Cart.findOne({ user }): whether the caller has a cart document; the one
\* found is the first, cs[u][1].
HasCart(cs, u) == Len(cs[u]) > 0

\* cart.items.findIndex(item => item.product.toString() === productId), 0 for -1.
LineIdx(items, ref) ==
  IF \E k \in 1..Len(items) : items[k].productVariant = ref
  THEN CHOOSE k \in 1..Len(items) :
         items[k].productVariant = ref
         /\ \A j \in 1..(k - 1) : items[j].productVariant # ref
  ELSE 0

\* The record a cart line's reference resolves to in the cart handlers: the
\* referenced variant with the price of its product.
ItemExists(ref) ==
  ref \in DOMAIN variants /\ variants[ref].productId \in DOMAIN products
ItemStock(ref) == variants[ref].quantity
ItemPrice(ref) == products[variants[ref].productId].price

\* calculateTotal: product.price * item.quantity summed over the lines, each
\* product re-read from the store.  It throws when a line's record is gone.
calculateTotalThrows(items) ==
  \E k \in 1..Len(items) : ~ItemExists(items[k].productVariant)
\* Faulty variant: the prices are summed without the quantities.
RECURSIVE calculateTotal_NoQuantity(_)
calculateTotal_NoQuantity(items) ==
  IF items = <<>> THEN 0
  ELSE ItemPrice(Head(items).productVariant)
       + calculateTotal_NoQuantity(Tail(items))
RECURSIVE calculateTotal(_)
calculateTotal(items) ==
  IF items = <<>> THEN 0
  ELSE ItemPrice(Head(items).productVariant) * Head(items).quantity
       + calculateTotal(Tail(items))

\* Faulty variant: the lines are saved without validation.
CartValid_Unchecked(items) == TRUE
\* Schema validation on cart.save(): quantity min 1 on every line.
CartValid(items) == \A k \in 1..Len(items) : items[k].quantity >= 1

RemoveAt(s, k) == SubSeq(s, 1, k - 1) \o SubSeq(s, k + 1, Len(s))

(***************************************************************************)
(* Cart handlers.  Each is one action; its response is a function of the   *)
(* store and the request, given by the ...Status operator.                 *)
(***************************************************************************)
NewCart == [items |-> <<>>, totalAmount |-> 0]

\* let cart = await Cart.findOne({ user }); if (!cart) cart = await Cart.create(...)
FindOrCreateCart(cs, u) ==
  IF HasCart(cs, u) THEN cs ELSE [cs EXCEPT ![u] = Append(@, NewCart)]

\* getCart: the caller's cart is created on first access.
getCart(u) ==
  /\ carts' = FindOrCreateCart(carts, u)
  /\ UNCHANGED <<products, variants, orders, orderProducts, req>>

\* The stock test of addToCart.
addToCartStockShort(ref, quantity) == ItemStock(ref) < quantity

\* Faulty variant: a line is pushed whether or not the item has one.
addToCartItems_Push(u, ref, quantity) ==
  Append(FindOrCreateCart(carts, u)[u][1].items,
         [productVariant |-> ref, quantity |-> quantity])
\* The caller's lines after the merge-or-push of addToCart.
addToCartItems(u, ref, quantity) ==
  LET items0 == FindOrCreateCart(carts, u)[u][1].items
      k      == LineIdx(items0, ref)
  IN IF k # 0
     THEN [items0 EXCEPT ![k].quantity = @ + quantity]
     ELSE Append(items0, [productVariant |-> ref, quantity |-> quantity])

addToCartStatus(u, ref, quantity) ==
  IF quantity = 0 THEN "ValidationError"
  ELSE IF ~ItemExists(ref) THEN "NotFound"
  ELSE IF addToCartStockShort(ref, quantity) THEN "InsufficientStock"
  ELSE IF calculateTotalThrows(addToCartItems(u, ref, quantity)) THEN "Internal"
  ELSE IF ~CartValid(addToCartItems(u, ref, quantity)) THEN "Internal"
  ELSE "OK"

\* The carts addToCart leaves: the merged lines and their total are saved
\* when the request succeeds; a cart created for the request stays when the
\* total or the save fails.
addToCartCarts(u, ref, quantity) ==
  LET status == addToCartStatus(u, ref, quantity)
      cs     == FindOrCreateCart(carts, u)
      items1 == addToCartItems(u, ref, quantity)
  IN IF status = "OK"
     THEN [cs EXCEPT ![u][1].items = items1,
                     ![u][1].totalAmount = calculateTotal(items1)]
     ELSE IF status = "Internal" THEN cs
     ELSE carts

addToCart(u, ref, quantity) ==
  LET status == addToCartStatus(u, ref, quantity)
      items1 == addToCartItems(u, ref, quantity)
  IN /\ UNCHANGED <<products, variants, orders, orderProducts, req>>
     /\ status = "OK" => \A j \in 1..Len(items1) : items1[j].quantity <= MaxQty
     /\ carts' = addToCartCarts(u, ref, quantity)

\* Faulty variant: quantity 0 is written to the line like any other.
updateCartItemItems_NoSplice(u, ref, quantity) ==
  [carts[u][1].items EXCEPT
     ![LineIdx(carts[u][1].items, ref)].quantity = quantity]
\* The caller's lines after the splice-or-overwrite of updateCartItem.
updateCartItemItems(u, ref, quantity) ==
  LET items0 == carts[u][1].items
      k      == LineIdx(items0, ref)
  IN IF quantity = 0
     THEN RemoveAt(items0, k)
     ELSE [items0 EXCEPT ![k].quantity = quantity]

updateCartItemStatus(u, ref, quantity) ==
  IF ~HasCart(carts, u) THEN "CartNotFound"
  ELSE IF LineIdx(carts[u][1].items, ref) = 0 THEN "NotFound"
  ELSE IF calculateTotalThrows(updateCartItemItems(u, ref, quantity))
  THEN "Internal"
  ELSE IF ~CartValid(updateCartItemItems(u, ref, quantity)) THEN "Internal"
  ELSE "OK"

\* The carts updateCartItem leaves: the updated lines and their total are
\* saved when the request succeeds.
updateCartItemCarts(u, ref, quantity) ==
  LET status == updateCartItemStatus(u, ref, quantity)
      items1 == updateCartItemItems(u, ref, quantity)
  IN IF status = "OK"
     THEN [carts EXCEPT ![u][1].items = items1,
                        ![u][1].totalAmount = calculateTotal(items1)]
     ELSE carts

updateCartItem(u, ref, quantity) ==
  LET status == updateCartItemStatus(u, ref, quantity)
      items1 == updateCartItemItems(u, ref, quantity)
  IN /\ UNCHANGED <<products, variants, orders, orderProducts, req>>
     /\ status = "OK" => \A j \in 1..Len(items1) : items1[j].quantity <= MaxQty
     /\ carts' = updateCartItemCarts(u, ref, quantity)

(***************************************************************************)
(* getCart, one action per awaited store operation.                        *)
(*   pc: new -> create -> done -> closed; a cart found goes to done.       *)
(***************************************************************************)
\* let cart = await Cart.findOne({ user: req.user._id })
getCart_findOne(r, u) ==
  /\ req[r].pc = "new"
  /\ \A r0 \in Requests : r0 < r => req[r0].pc # "new"
  /\ req' = [req EXCEPT ![r] =
               [NewReq EXCEPT !.user = u,
                              !.pc = IF HasCart(carts, u) THEN "done" ELSE "create",
                              !.status = IF HasCart(carts, u) THEN "OK" ELSE "none"]]
  /\ UNCHANGED store

\* if (!cart) cart = await Cart.create({ user: req.user._id, items: [] })
getCart_create(r) ==
  /\ req[r].pc = "create"
  /\ carts' = [carts EXCEPT ![req[r].user] = Append(@, NewCart)]
  /\ req' = [req EXCEPT ![r].pc = "done", ![r].status = "OK"]
  /\ UNCHANGED <<products, variants, orders, orderProducts>>

\* res.json(cart)
getCart_respond(r) ==
  /\ req[r].pc = "done"
  /\ req' = [req EXCEPT ![r] = ClosedReq]
  /\ UNCHANGED store

(***************************************************************************)
(* Catalog handlers.                                                       *)
(***************************************************************************)
\* Faulty variant: the lines of placed orders follow the new price.
updateProduct_Reprices(p, price) ==
  /\ UNCHANGED <<variants, carts, orders, req>>
  /\ orderProducts' = {IF l.productId = p THEN [l EXCEPT !.price = price] ELSE l :
                         l \in orderProducts}
  /\ products' = IF p \in DOMAIN products
                 THEN [products EXCEPT ![p].price = price]
                 ELSE products
\* findByIdAndUpdate(id, req.body) with a body that sets the price.
updateProduct(p, price) ==
  /\ UNCHANGED <<variants, carts, orders, orderProducts, req>>
  /\ products' = IF p \in DOMAIN products
                 THEN [products EXCEPT ![p].price = price]
                 ELSE products

deleteProduct(p) ==
  /\ UNCHANGED <<variants, carts, orders, orderProducts, req>>
  /\ products' = [x \in DOMAIN products \ {p} |-> products[x]]

\* Faulty variant: the sum is added to the stored totalStock.
WithTotalStock_Added(ps, vs, p) ==
  [ps EXCEPT ![p].totalStock = @ + StockSum(vs, p)]
\* product.totalStock = sum of the variants' quantities; product.save()
WithTotalStock(ps, vs, p) == [ps EXCEPT ![p].totalStock = StockSum(vs, p)]

\* ProductVariant.findOne({ productId, size, color })
restockMatch(p, size, color) ==
  {v \in DOMAIN variants : /\ variants[v].productId = p
                           /\ variants[v].size = size
                           /\ variants[v].color = color}

\* Faulty variant: the amount is not checked.
restockVariantStatus_Unchecked(p, size, color, quantity) ==
  IF restockMatch(p, size, color) = {} THEN "NotFound"
  ELSE IF \E v \in restockMatch(p, size, color) :
            variants[v].quantity + quantity < 0
  THEN "Internal"
  ELSE "OK"
\* if (!quantity || quantity <= 0) 400; no match 404; variant.save()
\* validates quantity min 0.
restockVariantStatus(p, size, color, quantity) ==
  IF quantity <= 0 THEN "ValidationError"
  ELSE IF restockMatch(p, size, color) = {} THEN "NotFound"
  ELSE IF \E v \in restockMatch(p, size, color) :
            variants[v].quantity + quantity < 0
  THEN "Internal"
  ELSE "OK"

\* Faulty variant: the amount replaces the stored quantity.
Restocked_Overwrite(vs, v, quantity) == [vs EXCEPT ![v].quantity = quantity]
\* variant.quantity += quantity; await variant.save()
Restocked(vs, v, quantity) == [vs EXCEPT ![v].quantity = @ + quantity]

\* Faulty variant: the sum is taken over the variants as they were before
\* the restocked one was saved.
restockVariantProducts_BeforeSave(ps, vs1, p) ==
  IF p \in DOMAIN ps THEN WithTotalStock(ps, variants, p) ELSE ps
\* const product = await Product.findById(productId); if (product) { ...
\* product.totalStock = totalStock; await product.save() }
restockVariantProducts(ps, vs1, p) ==
  IF p \in DOMAIN ps THEN WithTotalStock(ps, vs1, p) ELSE ps

restockVariant(p, size, color, quantity) ==
  /\ UNCHANGED <<carts, orders, orderProducts, req>>
  /\ IF restockVariantStatus(p, size, color, quantity) # "OK"
     THEN UNCHANGED <<products, variants>>
     ELSE \E v \in restockMatch(p, size, color) :
            LET vs1 == Restocked(variants, v, quantity)
            IN /\ vs1[v].quantity <= MaxQty
               /\ variants' = vs1
               /\ products' = restockVariantProducts(products, vs1, p)

RECURSIVE RecomputeAll(_, _, _)
RecomputeAll(ps, vs, S) ==
  IF S = {} THEN ps
  ELSE LET p == CHOOSE x \in S : TRUE
       IN RecomputeAll(WithTotalStock(ps, vs, p), vs, S \ {p})

\* initializeProducts: deleteMany of the variants and products; each product
\* saved with totalStock: 0, then its variants saved with a random quantity.
\* Nothing in the handler, and no hook of the variant schema the handlers'
\* field names belong to, touches totalStock afterwards.  The new records
\* take the places of the deleted ones, so the handler is run on a store
\* that no cart or order refers to.
initializeProducts(price, qty) ==
  /\ \A u \in Users : carts[u] = <<>>
  /\ orders = <<>> /\ orderProducts = {}
  /\ products' = [p \in ProductIds |-> [price |-> price[p], totalStock |-> 0]]
  /\ variants' = [v \in VariantIds |->
                    [productId |-> SeedProduct(v), size |-> SeedSize(v),
                     color |-> SeedColor(v), quantity |-> qty[v]]]
  /\ UNCHANGED <<carts, orders, orderProducts, req>>

calculateTotalStock ==
  /\ products' = RecomputeAll(products, variants, DOMAIN products)
  /\ UNCHANGED <<variants, carts, orders, orderProducts, req>>

(***************************************************************************)
(* createOrder, one action per awaited store operation.                    *)
(*   pc: new -> variant <-> product -> order -> lines -> dec -> clear      *)
(*       -> done -> closed; every early return goes to done.               *)
(* At done the response (req[r].status) is decided and about to be sent.   *)
(* req[r].pre is a history field: the store as the request found it.       *)
(***************************************************************************)
Snapshot == [products |-> products, variants |-> variants, carts |-> carts,
             orders |-> orders, orderProducts |-> orderProducts]

Fail(q, status) == [q EXCEPT !.pc = "done", !.status = status]

\* Faulty variant: an empty cart is answered like a missing one.
createOrderCartStatus_Merged(cs, u) ==
  IF ~HasCart(cs, u) \/ Len(cs[u][1].items) = 0 THEN "CartNotFound" ELSE "OK"
\* if (!cart) ... 404 'Cart not found'; if (cart.items.length === 0) ... 400
createOrderCartStatus(cs, u) ==
  IF ~HasCart(cs, u) THEN "CartNotFound"
  ELSE IF Len(cs[u][1].items) = 0 THEN "EmptyCart"
  ELSE "OK"

\* Faulty variant: the cart is created when missing, as getCart does.
createOrder_findCart_Creates(r, u) ==
  /\ req[r].pc = "new"
  /\ \A r0 \in Requests : r0 < r => req[r0].pc # "new"
  /\ LET q0 == [NewReq EXCEPT !.user = u, !.pre = Snapshot]
         cs == FindOrCreateCart(carts, u)
         status == createOrderCartStatus(cs, u)
     IN /\ carts' = cs
        /\ req' = [req EXCEPT ![r] =
                     IF status # "OK" THEN Fail(q0, status)
                     ELSE [q0 EXCEPT !.pc = "variant",
                                     !.items = cs[u][1].items,
                                     !.totalAmount = cs[u][1].totalAmount,
                                     !.i = 1]]
  /\ UNCHANGED <<products, variants, orders, orderProducts>>
\* const cart = await Cart.findOne({ user: userId }); the two cart checks
createOrder_findCart(r, u) ==
  /\ req[r].pc = "new"
  /\ \A r0 \in Requests : r0 < r => req[r0].pc # "new"
  /\ LET q0 == [NewReq EXCEPT !.user = u, !.pre = Snapshot]
         status == createOrderCartStatus(carts, u)
     IN req' = [req EXCEPT ![r] =
                  IF status # "OK" THEN Fail(q0, status)
                  ELSE [q0 EXCEPT !.pc = "variant",
                                  !.items = carts[u][1].items,
                                  !.totalAmount = carts[u][1].totalAmount,
                                  !.i = 1]]
  /\ UNCHANGED store

\* Faulty variant: only asks whether a unit is left.
createOrderStockShort_AnyLeft(v, quantity) == variants[v].quantity < 1
\* if (productVariant.quantity < item.quantity) ... 400
createOrderStockShort(v, quantity) == variants[v].quantity < quantity

\* await ProductVariant.findById(item.productVariant); the stock check
createOrder_findVariant(r) ==
  /\ req[r].pc = "variant"
  /\ LET item == req[r].items[req[r].i]
         v    == item.productVariant
     IN req' = [req EXCEPT ![r] =
                  IF v \notin DOMAIN variants THEN Fail(@, "VariantNotFound")
                  ELSE IF createOrderStockShort(v, item.quantity)
                  THEN Fail(@, "InsufficientStock")
                  ELSE [@ EXCEPT !.pc = "product"]]
  /\ UNCHANGED store

\* await Product.findById(productVariant.productId); orderItems.push(...)
createOrder_findProduct(r) ==
  /\ req[r].pc = "product"
  /\ LET item == req[r].items[req[r].i]
         p    == SeedProduct(item.productVariant)
         more == req[r].i < Len(req[r].items)
     IN req' = [req EXCEPT ![r] =
                  IF p \notin DOMAIN products THEN Fail(@, "ProductNotFound")
                  ELSE [@ EXCEPT
                          !.orderItems = Append(@, [productId |-> p,
                                                    quantity |-> item.quantity,
                                                    price |-> products[p].price]),
                          !.i = IF more THEN @ + 1 ELSE 0,
                          !.pc = IF more THEN "variant" ELSE "order"]]
  /\ UNCHANGED store

\* total: cart.totalAmount
OrderTotal(q) == q.totalAmount

\* const order = await Order.create({ userId, total, status: 'Pending', ... })
createOrder_createOrder(r) ==
  /\ req[r].pc = "order"
  /\ orders' = Append(orders, [userId |-> req[r].user,
                               total |-> OrderTotal(req[r]),
                               status |-> "Pending"])
  /\ req' = [req EXCEPT ![r].pc = "lines", ![r].orderId = Len(orders) + 1]
  /\ UNCHANGED <<products, variants, carts, orderProducts>>

\* Faulty variant: the request moves on to the decrements as soon as one
\* line is stored.
createOrder_createOrderProduct_FirstOnly(r) ==
  /\ req[r].pc = "lines"
  /\ \E k \in (1..Len(req[r].orderItems)) \ req[r].created :
       LET item == req[r].orderItems[k]
       IN /\ orderProducts' = orderProducts \cup
                {[orderId |-> req[r].orderId, line |-> k,
                  productId |-> item.productId, quantity |-> item.quantity,
                  price |-> item.price]}
          /\ req' = [req EXCEPT ![r].created = {}, ![r].pc = "dec", ![r].i = 1]
  /\ UNCHANGED <<products, variants, carts, orders>>
\* orderItems.map(item => OrderProduct.create(...)); await Promise.all(...):
\* the creations are issued together and complete in any order.
createOrder_createOrderProduct(r) ==
  /\ req[r].pc = "lines"
  /\ \E k \in (1..Len(req[r].orderItems)) \ req[r].created :
       LET item == req[r].orderItems[k]
           all  == req[r].created \cup {k} = 1..Len(req[r].orderItems)
       IN /\ orderProducts' = orderProducts \cup
                {[orderId |-> req[r].orderId, line |-> k,
                  productId |-> item.productId, quantity |-> item.quantity,
                  price |-> item.price]}
          /\ req' = [req EXCEPT ![r].created = IF all THEN {} ELSE @ \cup {k},
                                ![r].pc = IF all THEN "dec" ELSE "lines",
                                ![r].i = IF all THEN 1 ELSE 0]
  /\ UNCHANGED <<products, variants, carts, orders>>

\* Faulty variant: one unit per line.
Decremented_ByOne(vs, v, quantity) == [vs EXCEPT ![v].quantity = @ - 1]
\* $inc: { quantity: -item.quantity }
Decremented(vs, v, quantity) == [vs EXCEPT ![v].quantity = @ - quantity]

\* Faulty variant: the stock is left alone when the user already has an
\* order from an earlier call.
createOrder_decrement_Once(r) ==
  /\ req[r].pc = "dec"
  /\ LET item == req[r].items[req[r].i]
         v    == item.productVariant
         last == req[r].i = Len(req[r].items)
         again == \E o \in 1..Len(orders) :
                    o # req[r].orderId /\ orders[o].userId = req[r].user
     IN /\ variants' = IF v \in DOMAIN variants /\ ~again
                       THEN Decremented(variants, v, item.quantity)
                       ELSE variants
        /\ req' = [req EXCEPT ![r].i = IF last THEN 0 ELSE @ + 1,
                              ![r].pc = IF last THEN "clear" ELSE "dec"]
  /\ UNCHANGED <<products, carts, orders, orderProducts>>
\* await ProductVariant.findByIdAndUpdate(item.productVariant, { $inc: ... })
createOrder_decrement(r) ==
  /\ req[r].pc = "dec"
  /\ LET item == req[r].items[req[r].i]
         v    == item.productVariant
         last == req[r].i = Len(req[r].items)
     IN /\ variants' = IF v \in DOMAIN variants
                       THEN Decremented(variants, v, item.quantity)
                       ELSE variants
        /\ req' = [req EXCEPT ![r].i = IF last THEN 0 ELSE @ + 1,
                              ![r].pc = IF last THEN "clear" ELSE "dec"]
  /\ UNCHANGED <<products, carts, orders, orderProducts>>

\* Faulty variant: the cached total is kept.
Cleared_ItemsOnly(cs, u) == [cs EXCEPT ![u][1].items = <<>>]
\* cart.items = []; cart.totalAmount = 0; on the document loaded by findOne
Cleared(cs, u) == [cs EXCEPT ![u][1].items = <<>>, ![u][1].totalAmount = 0]

\* await cart.save()
createOrder_clearCart(r) ==
  /\ req[r].pc = "clear"
  /\ carts' = Cleared(carts, req[r].user)
  /\ req' = [req EXCEPT ![r].pc = "done", ![r].status = "Created"]
  /\ UNCHANGED <<products, variants, orders, orderProducts>>

\* res.status(...).json(...): the response is sent and the request is over
createOrder_respond(r) ==
  /\ req[r].pc = "done"
  /\ req' = [req EXCEPT ![r] = ClosedReq]
  /\ UNCHANGED store

(***************************************************************************)
(* createOrder when a store operation fails: the rejected await throws     *)
(* into the catch, which answers 500; nothing written before is undone.    *)
(***************************************************************************)
\* await Cart.findOne({ user: userId }) rejects
createOrder_findCartFails(r, u) ==
  /\ req[r].pc = "new"
  /\ \A r0 \in Requests : r0 < r => req[r0].pc # "new"
  /\ req' = [req EXCEPT ![r] =
               Fail([NewReq EXCEPT !.user = u, !.pre = Snapshot], "Internal")]
  /\ UNCHANGED store

\* Faulty variant: a failed decrement or cart save takes back the decrements
\* already applied.
createOrder_storeFails_RollsBack(r) ==
  /\ req[r].pc \in {"variant", "product", "order", "lines", "dec", "clear"}
  /\ variants' = IF req[r].pc \in {"dec", "clear"} THEN req[r].pre.variants
                 ELSE variants
  /\ req' = [req EXCEPT ![r] = Fail(@, "Internal")]
  /\ UNCHANGED <<products, carts, orders, orderProducts>>
\* The awaited store operation the request is at rejects.  When it is one of
\* the OrderProduct.create calls, the others were issued with it
\* (Promise.all): any of them may still complete.
createOrder_storeFails(r) ==
  /\ req[r].pc \in {"variant", "product", "order", "lines", "dec", "clear"}
  /\ IF req[r].pc = "lines"
     THEN \E k \in (1..Len(req[r].orderItems)) \ req[r].created :
            \E S \in SUBSET ((1..Len(req[r].orderItems)) \ (req[r].created \cup {k})) :
              /\ orderProducts' = orderProducts \cup
                    {[orderId |-> req[r].orderId, line |-> j,
                      productId |-> req[r].orderItems[j].productId,
                      quantity |-> req[r].orderItems[j].quantity,
                      price |-> req[r].orderItems[j].price] : j \in S}
              /\ req' = [req EXCEPT ![r] =
                           Fail([@ EXCEPT !.created = @ \cup S], "Internal")]
     ELSE /\ orderProducts' = orderProducts
          /\ req' = [req EXCEPT ![r] = Fail(@, "Internal")]
  /\ UNCHANGED <<products, variants, carts, orders>>

(***************************************************************************)
(* createOrder in its product-stock revision: the stock is on the record a *)
(* cart line references, and each line is checked and decremented in the   *)
(* same pass of one loop.  Handled alone, as one action.                   *)
(***************************************************************************)
\* for (const item of cart.items) { findById; 404; 400; findByIdAndUpdate
\* $inc: { stock: -item.quantity } }: the stock the loop leaves and the
\* status it ends with.
RECURSIVE createOrder_productStockLoop(_, _)
createOrder_productStockLoop(vs, items) ==
  IF items = <<>> THEN [variants |-> vs, status |-> "OK"]
  ELSE LET item == Head(items)
           v    == item.productVariant
       IN IF v \notin DOMAIN vs
          THEN [variants |-> vs, status |-> "ProductNotFound"]
          ELSE IF vs[v].quantity < item.quantity
          THEN [variants |-> vs, status |-> "InsufficientStock"]
          ELSE createOrder_productStockLoop(
                 Decremented(vs, v, item.quantity), Tail(items))

createOrder_productStockStatus(u) ==
  IF ~HasCart(carts, u) THEN "CartNotFound"
  ELSE createOrder_productStockLoop(variants, carts[u][1].items).status

createOrder_productStockVariants(u) ==
  IF ~HasCart(carts, u) THEN variants
  ELSE createOrder_productStockLoop(variants, carts[u][1].items).variants

\* Order.create({ userId, items, total: cart.totalAmount, ... }) names no
\* status; cart.items = []; cart.totalAmount = 0; cart.save()
createOrder_productStock(u) ==
  LET status == createOrder_productStockStatus(u)
  IN /\ status = "OK" => Len(orders) < MaxOrders
     /\ variants' = createOrder_productStockVariants(u)
     /\ IF status = "OK"
        THEN /\ orders' = Append(orders, [userId |-> u,
                                          total |-> carts[u][1].totalAmount,
                                          status |-> "none"])
             /\ carts' = Cleared(carts, u)
        ELSE UNCHANGED <<orders, carts>>
     /\ UNCHANGED <<products, orderProducts, req>>

(***************************************************************************)
(* restockVariant, one action per write, for the runs in which it          *)
(* interleaves with another request.                                       *)
(*   pc: new -> save -> total -> done.                                     *)
(* req[r].variant is the _id of the document findOne loaded and            *)
(* req[r].quantity its quantity in memory.                                 *)
(***************************************************************************)
\* the validation; await ProductVariant.findOne(...); 404;
\* variant.quantity += quantity on the loaded document
restockVariant_findOne(r, p, size, color, quantity) ==
  /\ req[r].pc = "new"
  /\ \A r0 \in Requests : r0 < r => req[r0].pc # "new"
  /\ LET q0 == [NewReq EXCEPT !.pre = Snapshot]
         status == restockVariantStatus(p, size, color, quantity)
     IN IF status # "OK"
        THEN req' = [req EXCEPT ![r] = Fail(q0, status)]
        ELSE \E v \in restockMatch(p, size, color) :
               /\ Restocked(variants, v, quantity)[v].quantity <= MaxQty
               /\ req' = [req EXCEPT ![r] =
                            [q0 EXCEPT
                               !.pc = "save", !.variant = v,
                               !.quantity =
                                 Restocked(variants, v, quantity)[v].quantity]]
  /\ UNCHANGED store

\* await variant.save(): the quantity of the document in memory is written
\* over the stored one.
restockVariant_save(r) ==
  /\ req[r].pc = "save"
  /\ variants' = [variants EXCEPT ![req[r].variant].quantity = req[r].quantity]
  /\ req' = [req EXCEPT ![r].pc = "total"]
  /\ UNCHANGED <<products, carts, orders, orderProducts>>

\* Product.findById; ProductVariant.find; product.totalStock = ...;
\* product.save(); res.status(200)
restockVariant_saveProduct(r) ==
  /\ req[r].pc = "total"
  /\ products' = restockVariantProducts(products, variants,
                                        variants[req[r].variant].productId)
  /\ req' = [req EXCEPT ![r] = Fail(@, "OK")]
  /\ UNCHANGED <<variants, carts, orders, orderProducts>>

(***************************************************************************)
(* webhookHandler, one action per awaited operation.                       *)
(*   pc: new -> update -> done -> closed; escaped when the update rejects. *)
(***************************************************************************)
\* event = stripe.webhooks.constructEvent(...) inside try/catch: 400 on a bad
\* signature; an event other than payment_intent.succeeded is acknowledged.
webhookHandler_construct(r, valid, succeeded) ==
  /\ req[r].pc = "new"
  /\ \A r0 \in Requests : r0 < r => req[r0].pc # "new"
  /\ req' = [req EXCEPT ![r] =
               IF ~valid THEN Fail(NewReq, "WebhookError")
               ELSE IF succeeded THEN [NewReq EXCEPT !.pc = "update"]
               ELSE Fail(NewReq, "Received")]
  /\ UNCHANGED store

\* await Order.findByIdAndUpdate(orderId, { paymentStatus, orderStatus });
\* res.json({ received: true }).  The two fields are not among those the
\* other handlers read.
webhookHandler_update(r) ==
  /\ req[r].pc = "update"
  /\ req' = [req EXCEPT ![r] = Fail(@, "Received")]
  /\ UNCHANGED store

\* The update rejects outside any try/catch: the handler's promise rejects
\* and no response is ever sent.
webhookHandler_updateFails(r) ==
  /\ req[r].pc = "update"
  /\ req' = [req EXCEPT ![r].pc = "escaped"]
  /\ UNCHANGED store

(***************************************************************************)
(* recommendProducts, one action per awaited operation.                    *)
(*   pc: new -> service -> find -> done.                                   *)
(* Titles and names are sequences of letters.                              *)
(***************************************************************************)
Title(p) == <<"T", "e", "e">>
ReqNames == {<<>>, <<"t", "E">>, <<"e", "e">>, <<"h", "a", "t">>}

\* $options: 'i'
Lower(c) ==
  CASE c = "T" -> "t"
    [] c = "E" -> "e"
    [] c = "H" -> "h"
    [] c = "A" -> "a"
    [] OTHER -> c

\* title: { $regex: productName, $options: 'i' } for a name made of letters:
\* the name occurs somewhere in the title, letter case aside.
RegexMatch(title, productName) ==
  \E off \in 0..(Len(title) - Len(productName)) :
    \A j \in 1..Len(productName) :
      Lower(title[off + j]) = Lower(productName[j])

\* Product.findOne({ title: { $regex: productName, $options: 'i' } })
similarProduct(productName) ==
  {p \in DOMAIN products : RegexMatch(Title(p), productName)}

recommendProducts_findOne(r, productName) ==
  /\ req[r].pc = "new"
  /\ \A r0 \in Requests : r0 < r => req[r0].pc # "new"
  /\ req' = [req EXCEPT ![r] =
               IF productName = <<>> THEN Fail(NewReq, "BadRequest")
               ELSE IF similarProduct(productName) = {}
                    THEN Fail(NewReq, "NotFound")
                    ELSE [NewReq EXCEPT !.pc = "service"]]
  /\ UNCHANGED store

\* await getRecommendedProducts(similarProduct.title): the service answers
recommendProducts_service(r) ==
  /\ req[r].pc = "service"
  /\ req' = [req EXCEPT ![r].pc = "find"]
  /\ UNCHANGED store

\* Faulty variant: the error of the service is not caught.
recommendProducts_serviceFails_Uncaught(r) ==
  /\ req[r].pc = "service"
  /\ req' = [req EXCEPT ![r].pc = "escaped"]
  /\ UNCHANGED store
\* axios.post rejects; getRecommendedProducts throws 'Could not fetch
\* recommendations.'; the catch of recommendProducts answers 500 with that
\* message, which no other failure carries.
recommendProducts_serviceFails(r) ==
  /\ req[r].pc = "service"
  /\ req' = [req EXCEPT ![r] = Fail(@, "ServiceUnavailable")]
  /\ UNCHANGED store

\* Product.findOne or Product.find rejects: the catch answers 500 with the
\* message of the store's error.
recommendProducts_storeFails(r) ==
  /\ \/ req[r].pc = "find"
     \/ req[r].pc = "new" /\ \A r0 \in Requests : r0 < r => req[r0].pc # "new"
  /\ req' = [req EXCEPT ![r] = Fail(@, "Internal")]
  /\ UNCHANGED store

\* Product.find(); res.status(200).json(...)
recommendProducts_find(r) ==
  /\ req[r].pc = "find"
  /\ req' = [req EXCEPT ![r] = Fail(@, "OK")]
  /\ UNCHANGED store

(***************************************************************************)
(* updateOrderStatus.                                                      *)
(***************************************************************************)
\* Order.findByIdAndUpdate(orderID, { status }, { new: true }): the status of
\* the request body is stored as it comes; an unknown order is a 404.
updateOrderStatus(o, status) ==
  /\ orders' = IF o \in 1..Len(orders)
               THEN [orders EXCEPT ![o].status = status]
               ELSE orders
  /\ UNCHANGED <<products, variants, carts, orderProducts, req>>

(***************************************************************************)
(* Next-state relations.                                                   *)
(***************************************************************************)
GetCart == \E u \in Users : getCart(u)
AddToCart ==
  \E u \in Users, ref \in VariantIds, q \in ReqQuantities : addToCart(u, ref, q)
UpdateCartItem ==
  \E u \in Users, ref \in VariantIds, q \in ReqQuantities :
    updateCartItem(u, ref, q)
UpdateProduct == \E p \in ProductIds, price \in Prices : updateProduct(p, price)
DeleteProduct == \E p \in ProductIds : deleteProduct(p)
RestockVariant ==
  \E p \in ProductIds, size \in Sizes, color \in Colors, q \in ReqQuantities :
    restockVariant(p, size, color, q)
CalculateTotalStock == calculateTotalStock
UpdateOrderStatus ==
  \E o \in ReqOrderIds, status \in ReqStatuses : updateOrderStatus(o, status)

RestockFindOne(r) ==
  \E p \in ProductIds, size \in Sizes, color \in Colors, q \in ReqQuantities :
    restockVariant_findOne(r, p, size, color, q)
RestockSave(r) == restockVariant_save(r)
RestockSaveProduct(r) == restockVariant_saveProduct(r)

InitializeProducts ==
  \E price \in [ProductIds -> Prices], qty \in [VariantIds -> 1..MaxQty] :
    initializeProducts(price, qty)

CreateOrderProductStock == \E u \in Users : createOrder_productStock(u)

FindCartFails(r) == \E u \in Users : createOrder_findCartFails(r, u)
StoreFails(r) == createOrder_storeFails(r)
WebhookConstruct(r) ==
  \E valid \in BOOLEAN, succeeded \in BOOLEAN :
    webhookHandler_construct(r, valid, succeeded)
WebhookUpdate(r) == webhookHandler_update(r)
WebhookUpdateFails(r) == webhookHandler_updateFails(r)

RecommendFindOne(r) ==
  \E productName \in ReqNames : recommendProducts_findOne(r, productName)
RecommendService(r) == recommendProducts_service(r)
RecommendServiceFails(r) == recommendProducts_serviceFails(r)
RecommendFind(r) == recommendProducts_find(r)
RecommendStoreFails(r) == recommendProducts_storeFails(r)

GetCartFindOne(r) == \E u \in Users : getCart_findOne(r, u)
GetCartCreate(r) == getCart_create(r)
GetCartRespond(r) == getCart_respond(r)

FindCart(r) == \E u \in Users : createOrder_findCart(r, u)
FindVariant(r) == createOrder_findVariant(r)
FindProduct(r) == createOrder_findProduct(r)
CreateOrder(r) == createOrder_createOrder(r)
CreateOrderProduct(r) == createOrder_createOrderProduct(r)
Decrement(r) == createOrder_decrement(r)
ClearCart(r) == createOrder_clearCart(r)
SendResponse(r) == createOrder_respond(r)

\* The createOrder requests being handled.
InFlight == {r \in Requests : req[r].pc \notin {"new", "closed"}}
\* No createOrder request has arrived yet.
Quiet == \A r \in Requests : req[r].pc = "new"
\* No other createOrder request is being handled.
Alone(r) == InFlight \subseteq {r}
\* An order has been placed and no createOrder request is being handled.
AfterOrders == InFlight = {} /\ Len(orders) > 0

\* The cart and catalog requests alone, one at a time.
NextCart ==
  \/ GetCart
  \/ AddToCart
  \/ UpdateCartItem
  \/ UpdateProduct
  \/ DeleteProduct
  \/ RestockVariant
  \/ CalculateTotalStock

SpecCart == Init /\ [][NextCart]_vars

\* One request at a time: cart and catalog requests, then the createOrder
\* requests one after the other.
Next ==
  \/ Quiet /\ GetCart
  \/ Quiet /\ AddToCart
  \/ Quiet /\ UpdateCartItem
  \/ Quiet /\ UpdateProduct
  \/ Quiet /\ DeleteProduct
  \/ Quiet /\ RestockVariant
  \/ Quiet /\ CalculateTotalStock
  \/ \E r \in Requests : Alone(r) /\ FindCart(r)
  \/ \E r \in Requests : Alone(r) /\ FindVariant(r)
  \/ \E r \in Requests : Alone(r) /\ FindProduct(r)
  \/ \E r \in Requests : Alone(r) /\ CreateOrder(r)
  \/ \E r \in Requests : Alone(r) /\ CreateOrderProduct(r)
  \/ \E r \in Requests : Alone(r) /\ Decrement(r)
  \/ \E r \in Requests : Alone(r) /\ ClearCart(r)
  \/ \E r \in Requests : Alone(r) /\ SendResponse(r)

Spec == Init /\ [][Next]_vars

\* Carts are filled, then the createOrder requests are handled with their
\* steps interleaved: each awaited store operation is a point where the
\* other request may run.
NextConc ==
  \/ Quiet /\ AddToCart
  \/ \E r \in Requests : FindCart(r)
  \/ \E r \in Requests : FindVariant(r)
  \/ \E r \in Requests : FindProduct(r)
  \/ \E r \in Requests : CreateOrder(r)
  \/ \E r \in Requests : CreateOrderProduct(r)
  \/ \E r \in Requests : Decrement(r)
  \/ \E r \in Requests : ClearCart(r)
  \/ \E r \in Requests : SendResponse(r)

SpecConc == Init /\ [][NextConc]_vars

\* Carts are filled, one createOrder request is handled, and once its order
\* is placed the catalog is maintained.
NextAdmin ==
  \/ Quiet /\ AddToCart
  \/ AfterOrders /\ UpdateProduct
  \/ AfterOrders /\ DeleteProduct
  \/ AfterOrders /\ RestockVariant
  \/ AfterOrders /\ CalculateTotalStock
  \/ \E r \in Requests : Quiet /\ FindCart(r)
  \/ \E r \in Requests : FindVariant(r)
  \/ \E r \in Requests : FindProduct(r)
  \/ \E r \in Requests : CreateOrder(r)
  \/ \E r \in Requests : CreateOrderProduct(r)
  \/ \E r \in Requests : Decrement(r)
  \/ \E r \in Requests : ClearCart(r)
  \/ \E r \in Requests : SendResponse(r)

SpecAdmin == Init /\ [][NextAdmin]_vars

\* Carts are filled, then getCart requests are handled with their steps
\* interleaved.
NextAccess ==
  \/ Quiet /\ AddToCart
  \/ \E r \in Requests : GetCartFindOne(r)
  \/ \E r \in Requests : GetCartCreate(r)
  \/ \E r \in Requests : GetCartRespond(r)

SpecAccess == Init /\ [][NextAccess]_vars

\* Carts are filled, one createOrder request is handled, and once its order
\* is placed updateOrderStatus requests are handled.
NextStatus ==
  \/ Quiet /\ AddToCart
  \/ AfterOrders /\ UpdateOrderStatus
  \/ \E r \in Requests : Quiet /\ FindCart(r)
  \/ \E r \in Requests : FindVariant(r)
  \/ \E r \in Requests : FindProduct(r)
  \/ \E r \in Requests : CreateOrder(r)
  \/ \E r \in Requests : CreateOrderProduct(r)
  \/ \E r \in Requests : Decrement(r)
  \/ \E r \in Requests : ClearCart(r)
  \/ \E r \in Requests : SendResponse(r)

SpecStatus == Init /\ [][NextStatus]_vars

\* Every other request has been answered or has not arrived; an answered
\* request stays in view with what it did.
Apart(r) ==
  \A r0 \in Requests \ {r} : req[r0].pc \in {"new", "done", "escaped"}

\* Carts are filled, then one createOrder request and webhook requests are
\* handled one after the other, and any store operation of theirs may fail.
NextFail ==
  \/ Quiet /\ AddToCart
  \/ \E r \in Requests : Quiet /\ FindCart(r)
  \/ \E r \in Requests : Quiet /\ FindCartFails(r)
  \/ \E r \in Requests : FindVariant(r)
  \/ \E r \in Requests : FindProduct(r)
  \/ \E r \in Requests : CreateOrder(r)
  \/ \E r \in Requests : CreateOrderProduct(r)
  \/ \E r \in Requests : Decrement(r)
  \/ \E r \in Requests : ClearCart(r)
  \/ \E r \in Requests : StoreFails(r)
  \/ \E r \in Requests : Apart(r) /\ WebhookConstruct(r)
  \/ \E r \in Requests : WebhookUpdate(r)
  \/ \E r \in Requests : WebhookUpdateFails(r)

SpecFail == Init /\ [][NextFail]_vars

\* The cart handlers and createOrder in its product-stock revision, one
\* request at a time.
NextRevision ==
  \/ AddToCart
  \/ UpdateCartItem
  \/ CreateOrderProductStock

SpecRevision == Init /\ [][NextRevision]_vars

\* The catalog is seeded, then the cart and catalog handlers run on it, one
\* request at a time.
NextSeed ==
  \/ InitializeProducts
  \/ AddToCart
  \/ UpdateCartItem
  \/ RestockVariant
  \/ CalculateTotalStock

SpecSeed == Init /\ [][NextSeed]_vars

\* No createOrder request has arrived.
NoOrderRequest == \A r \in Requests : req[r].user = "none"

\* Carts are filled, then one createOrder request and restockVariant
\* requests are handled, interleaved.
NextRace ==
  \/ Quiet /\ AddToCart
  \/ \E r \in Requests : NoOrderRequest /\ FindCart(r)
  \/ \E r \in Requests : FindVariant(r)
  \/ \E r \in Requests : FindProduct(r)
  \/ \E r \in Requests : CreateOrder(r)
  \/ \E r \in Requests : CreateOrderProduct(r)
  \/ \E r \in Requests : Decrement(r)
  \/ \E r \in Requests : ClearCart(r)
  \/ \E r \in Requests : RestockFindOne(r)
  \/ \E r \in Requests : RestockSave(r)
  \/ \E r \in Requests : RestockSaveProduct(r)

SpecRace == Init /\ [][NextRace]_vars

\* No other request has arrived.
First(r) == \A r0 \in Requests \ {r} : req[r0].pc = "new"

\* Carts are filled, then a createOrder request whose store operations may
\* fail is handled, and after it a second createOrder request.
NextRetry ==
  \/ Quiet /\ AddToCart
  \/ \E r \in Requests : Apart(r) /\ FindCart(r)
  \/ \E r \in Requests : FindVariant(r)
  \/ \E r \in Requests : FindProduct(r)
  \/ \E r \in Requests : CreateOrder(r)
  \/ \E r \in Requests : CreateOrderProduct(r)
  \/ \E r \in Requests : Decrement(r)
  \/ \E r \in Requests : ClearCart(r)
  \/ \E r \in Requests : First(r) /\ StoreFails(r)

SpecRetry == Init /\ [][NextRetry]_vars

\* Carts are filled and products deleted, then recommendProducts requests
\* are handled, interleaved, and the recommendation service may fail.
NextRecommend ==
  \/ Quiet /\ AddToCart
  \/ Quiet /\ DeleteProduct
  \/ \E r \in Requests : RecommendFindOne(r)
  \/ \E r \in Requests : RecommendService(r)
  \/ \E r \in Requests : RecommendServiceFails(r)
  \/ \E r \in Requests : RecommendFind(r)
  \/ \E r \in Requests : RecommendStoreFails(r)

SpecRecommend == Init /\ [][NextRecommend]_vars

(***************************************************************************)
(* Properties of createOrder.  They are stated at the point where the      *)
(* response of a request is decided (pc = "done"), against the store as    *)
(* the request found it (req[r].pre).                                      *)
(***************************************************************************)
Decided(r) == req[r].pc = "done"
Succeeded(r) == Decided(r) /\ req[r].status = "Created"
Caller(r) == req[r].user
Pre(r) == req[r].pre
\* The lines of the caller's cart as the request found it.
PreItems(r) ==
  IF Caller(r) \in Users /\ HasCart(Pre(r).carts, Caller(r))
  THEN Pre(r).carts[Caller(r)][1].items
  ELSE <<>>
\* Line k asks for more than its variant had.
Short(r, k) ==
  LET item == PreItems(r)[k]
  IN /\ item.productVariant \in DOMAIN Pre(r).variants
     /\ item.quantity > Pre(r).variants[item.productVariant].quantity
\* The variant and the product of line k were both present.
Resolvable(r, k) ==
  LET v == PreItems(r)[k].productVariant
  IN /\ v \in DOMAIN Pre(r).variants
     /\ Pre(r).variants[v].productId \in DOMAIN Pre(r).products
NothingWritten(r) == Snapshot = Pre(r)
NoOrderNoStockChange(r) ==
  /\ orders = Pre(r).orders
  /\ orderProducts = Pre(r).orderProducts
  /\ variants = Pre(r).variants

RECURSIVE OrderedQty(_, _)
\* The quantity the lines of a cart ask of variant v.
OrderedQty(items, v) ==
  IF items = <<>> THEN 0
  ELSE (IF Head(items).productVariant = v THEN Head(items).quantity ELSE 0)
       + OrderedQty(Tail(items), v)

\* C1 as stated: whenever any line of the cart asks for more than its
\* variant has, createOrder answers InsufficientStock and writes nothing.
C1_AnyShortLineIsInsufficientStock ==
  \A r \in Requests :
    (Decided(r) /\ \E k \in 1..Len(PreItems(r)) : Short(r, k))
      => req[r].status = "InsufficientStock" /\ NothingWritten(r)

\* C1 amended: when a line asks for more than its variant has, createOrder
\* never creates an order and writes nothing; it answers InsufficientStock
\* exactly when every line before the first such line resolves to a variant
\* and a product, and NotFound otherwise.
C1_ShortLineFailsWithoutWrites ==
  \A r \in Requests :
    \A k \in 1..Len(PreItems(r)) :
      (Decided(r) /\ Short(r, k) /\ \A j \in 1..(k - 1) : ~Short(r, j))
        => /\ NothingWritten(r)
           /\ IF \A j \in 1..(k - 1) : Resolvable(r, j)
              THEN req[r].status = "InsufficientStock"
              ELSE req[r].status \in {"VariantNotFound", "ProductNotFound"}

\* A request was refused for the second line of its cart.
C1_Witness ==
  \E r \in Requests :
    /\ Decided(r) /\ req[r].status = "InsufficientStock"
    /\ Len(PreItems(r)) = 2 /\ ~Short(r, 1) /\ Short(r, 2)

\* C3: after a successful createOrder every variant holds what it held
\* before minus what the cart asked of it (nothing for a variant not in the
\* cart).
C3_StockDecrementedByOrdered ==
  \A r \in Requests :
    Succeeded(r) =>
      \A v \in DOMAIN variants :
        variants[v].quantity
          = Pre(r).variants[v].quantity - OrderedQty(PreItems(r), v)

\* An order for two units of one variant that left the other variant alone.
C3_Witness ==
  \E r \in Requests :
    /\ Succeeded(r)
    /\ Len(PreItems(r)) = 1 /\ PreItems(r)[1].quantity = 2
    /\ \E v \in DOMAIN variants : OrderedQty(PreItems(r), v) = 0

FailuresBeforeOrder ==
  {"CartNotFound", "EmptyCart", "VariantNotFound", "ProductNotFound",
   "InsufficientStock"}

C8_CartCleared ==
  \A r \in Requests :
    Succeeded(r) =>
      /\ carts[Caller(r)][1].items = <<>>
      /\ carts[Caller(r)][1].totalAmount = 0
      /\ \A u \in Users \ {Caller(r)} : carts[u] = Pre(r).carts[u]

\* An order was placed while the other user's cart held lines.
C8_Witness ==
  \E r \in Requests :
    /\ Succeeded(r) /\ Pre(r).carts[Caller(r)][1].totalAmount > 0
    /\ \E u \in Users \ {Caller(r)} :
         HasCart(carts, u) /\ Len(carts[u][1].items) > 0

\* The variants a cart's lines consume.
Consumed(items) == {items[k].productVariant : k \in 1..Len(items)}

\* C4: after a successful createOrder the totalStock of every product that
\* owns a consumed variant is the sum of the quantities of its variants.
C4_TotalStockRecomputed ==
  \A r \in Requests :
    Succeeded(r) =>
      \A p \in DOMAIN products :
        (\E v \in Consumed(PreItems(r)) : variants[v].productId = p)
          => products[p].totalStock = StockSum(variants, p)

RECURSIVE LinesTotal(_)
\* price * quantity summed over a set of order lines.
LinesTotal(lines) ==
  IF lines = {} THEN 0
  ELSE LET l == CHOOSE x \in lines : TRUE
       IN l.price * l.quantity + LinesTotal(lines \ {l})
LinesOf(o) == {l \in orderProducts : l.orderId = o}

\* C5: once the lines of an order are created, the order's total is the sum
\* over its lines of unit price times quantity, also when the price changed
\* after the cart was last mutated.
C5_TotalIsSumOfLines ==
  (\A r \in Requests : req[r].pc # "lines")
    => \A o \in 1..Len(orders) : orders[o].total = LinesTotal(LinesOf(o))

(***************************************************************************)
(* Properties of the cart handlers.                                        *)
(***************************************************************************)
RECURSIVE LineSum(_, _)
\* quantity * current price of the product, summed over the first n lines.
LineSum(items, n) ==
  IF n = 0 THEN 0
  ELSE LineSum(items, n - 1)
       + items[n].quantity * products[variants[items[n].productVariant].productId].price
TotalIsCurrentIn(cs, u) ==
  cs[u][1].totalAmount = LineSum(cs[u][1].items, Len(cs[u][1].items))
TotalIsCurrent(u) == TotalIsCurrentIn(carts, u)

LineQty(u, ref) ==
  IF HasCart(carts, u) /\ LineIdx(carts[u][1].items, ref) # 0
  THEN carts[u][1].items[LineIdx(carts[u][1].items, ref)].quantity
  ELSE 0

\* C10: addToCart answers InsufficientStock and leaves the cart as it was
\* whenever the quantity already in the cart plus the requested quantity
\* exceeds the stock of the item.
C10_AddBeyondStockRefused ==
  [][\A u \in Users, ref \in VariantIds, q \in ReqQuantities :
       (/\ q >= 1 /\ ItemExists(ref)
        /\ LineQty(u, ref) + q > ItemStock(ref)
        /\ addToCart(u, ref, q))
         => addToCartStatus(u, ref, q) = "InsufficientStock" /\ carts' = carts]_vars

(***************************************************************************)
(* Properties of interleaved createOrder requests.                         *)
(***************************************************************************)
\* C2: however createOrder requests interleave, no variant's quantity drops
\* below 0: no decrement takes more than the variant holds.
C2_StockNeverNegative ==
  \A v \in DOMAIN variants : variants[v].quantity >= 0

(***************************************************************************)
(* Properties of the stock handlers.                                       *)
(***************************************************************************)
\* The sum of the quantities of the variants of a product, variant by variant.
DirectSum(vs, p) ==
  LET qty(v) == IF v \in DOMAIN vs /\ vs[v].productId = p
                THEN vs[v].quantity ELSE 0
  IN qty("v1") + qty("v2")

\* C11: restockVariant with an amount of 0 or less answers with a validation
\* error, and no variant quantity and no product totalStock changes.
C11_NonPositiveRestockRefused ==
  /\ [](\A p \in ProductIds, size \in Sizes, color \in Colors,
          q \in ReqQuantities :
          q <= 0 => restockVariantStatus(p, size, color, q) = "ValidationError")
  /\ [][<<variants, products>>' # <<variants, products>>
          => \A p \in ProductIds, size \in Sizes, color \in Colors,
                q \in ReqQuantities :
                q <= 0 => ~restockVariant(p, size, color, q)]_vars

\* A non-initial state in which a variant matches and a restock by -1 is
\* refused.
C11_Witness ==
  /\ \E u \in Users : HasCart(carts, u)
  /\ \E p \in ProductIds, size \in Sizes, color \in Colors :
       /\ restockMatch(p, size, color) # {}
       /\ restockVariantStatus(p, size, color, -1) = "ValidationError"

\* C12: restockVariant with an amount above 0 answers NotFound and changes
\* nothing when no variant matches; otherwise it adds the amount to the
\* quantity of the matching variant, leaves every other variant as it was and
\* sets the totalStock of the parent product to the sum of the quantities of
\* its variants.
C12_RestockAddsToOneVariant ==
  /\ [](\A p \in ProductIds, size \in Sizes, color \in Colors,
          q \in ReqQuantities :
          q > 0 /\ restockMatch(p, size, color) = {}
            => restockVariantStatus(p, size, color, q) = "NotFound")
  /\ [][<<variants, products>>' # <<variants, products>>
          => \A p \in ProductIds, size \in Sizes, color \in Colors,
                q \in ReqQuantities :
                q > 0 /\ restockVariant(p, size, color, q)
                  => \E v \in restockMatch(p, size, color) :
                       /\ DOMAIN variants' = DOMAIN variants
                       /\ variants'[v].quantity = variants[v].quantity + q
                       /\ \A w \in DOMAIN variants \ {v} :
                            variants'[w] = variants[w]
                       /\ p \in DOMAIN products
                            => products'[p].totalStock = DirectSum(variants', p)
         ]_vars

\* The order is complete and every variant is at the largest quantity: a
\* variant the order had taken from has been restocked, and the totalStock is
\* the sum.
C12_Witness ==
  /\ AfterOrders
  /\ \A v \in DOMAIN variants : variants[v].quantity = MaxQty
  /\ "p1" \in DOMAIN products
  /\ products["p1"].totalStock = DirectSum(variants, "p1")

\* C13: calculateTotalStock leaves every product with a totalStock equal to
\* the sum of the quantities of its variants, a second run changes nothing,
\* and it modifies nothing but totalStock: prices, variants, carts and orders
\* stay as they were.
C13_RecomputationIsIdempotentRepair ==
  [][calculateTotalStock
       => /\ DOMAIN products' = DOMAIN products
          /\ \A p \in DOMAIN products :
               /\ products'[p].totalStock = DirectSum(variants', p)
               /\ products'[p].price = products[p].price
          /\ RecomputeAll(products', variants', DOMAIN products') = products'
          /\ UNCHANGED <<variants, carts, orders, orderProducts>>]_vars

\* Orders have emptied the stock and the totalStock, which createOrder left
\* at its old value and a restock would have raised with the stock, is 0: the
\* recomputation has repaired it.
C13_Witness ==
  /\ AfterOrders
  /\ \A v \in DOMAIN variants : variants[v].quantity = 0
  /\ "p1" \in DOMAIN products
  /\ products["p1"].totalStock = 0

\* C14: a restock by an amount above 0 followed at once by
\* calculateTotalStock leaves the totalStock of the product equal to the sum
\* of the quantities of its variants: the recomputation keeps what the
\* restock stored.
C14_RestockThenRecomputeAgree ==
  \A p \in ProductIds, size \in Sizes, color \in Colors, q \in ReqQuantities :
    (q > 0 /\ restockVariantStatus(p, size, color, q) = "OK"
     /\ p \in DOMAIN products)
      => \A v \in restockMatch(p, size, color) :
           LET vs1 == Restocked(variants, v, q)
               ps1 == restockVariantProducts(products, vs1, p)
               ps2 == RecomputeAll(ps1, vs1, DOMAIN ps1)
           IN /\ ps2[p].totalStock = DirectSum(vs1, p)
              /\ ps2 = ps1

\* The order had two lines, and both variants it took from have been
\* restocked to the largest quantity; the totalStock is the sum, whether or
\* not the recomputation ran afterwards.
C14_Witness ==
  /\ AfterOrders
  /\ Cardinality(orderProducts) = 2
  /\ \A v \in DOMAIN variants : variants[v].quantity = MaxQty
  /\ "p1" \in DOMAIN products
  /\ products["p1"].totalStock = DirectSum(variants, "p1")

(***************************************************************************)
(* Properties of the lines of an order.                                    *)
(***************************************************************************)
\* The lines of the order of request r that stem from line k of the cart.
LinesFor(r, k) == {l \in LinesOf(req[r].orderId) : l.line = k}

\* C15: createOrder creates exactly one OrderProduct per line of the cart,
\* carrying the quantity of the line and the unit price the product had when
\* the order was placed; a later updateProduct leaves the price and quantity
\* of every existing OrderProduct and the total of every order as they were.
C15_LinesKeepOrderTimePrice ==
  /\ [](\A r \in Requests :
          Succeeded(r) =>
            /\ \A l \in LinesOf(req[r].orderId) : l.line \in 1..Len(PreItems(r))
            /\ \A k \in 1..Len(PreItems(r)) :
                 LET p == Pre(r).variants[PreItems(r)[k].productVariant].productId
                 IN LinesFor(r, k) =
                      {[orderId |-> req[r].orderId, line |-> k, productId |-> p,
                        quantity |-> PreItems(r)[k].quantity,
                        price |-> Pre(r).products[p].price]})
  /\ [][(\E p \in ProductIds, price \in Prices : updateProduct(p, price))
          => UNCHANGED <<orders, orderProducts>>]_vars

\* The price of a product was changed after an order for it was placed: a
\* line of the order carries the price of that time, not the current one.
C15_Witness ==
  /\ AfterOrders
  /\ \E l \in orderProducts :
       /\ l.productId \in DOMAIN products
       /\ products[l.productId].price # l.price

(***************************************************************************)
(* Properties of the lines of a cart.                                      *)
(***************************************************************************)
\* The lines of the cart of user u, none when u has no cart.
ItemsOf(cs, u) == IF HasCart(cs, u) THEN cs[u][1].items ELSE <<>>
\* The positions of the lines of a cart that refer to an item.
LinesWith(items, ref) ==
  {k \in 1..Len(items) : items[k].productVariant = ref}

StaysUnresolved(u, ref, q) ==
  \E k \in 1..Len(ItemsOf(carts, u)) :
    /\ q # 0 \/ ItemsOf(carts, u)[k].productVariant # ref
    /\ ~ItemExists(ItemsOf(carts, u)[k].productVariant)

\* What an update of the line of ref to quantity q makes of the carts: cs
\* are the carts it leaves.
UpdateEffect(cs, u, ref, q) ==
  LET old == ItemsOf(carts, u)
      new == ItemsOf(cs, u)
  IN /\ \A x \in Users \ {u} : cs[x] = carts[x]
     /\ IF q = 0
        THEN /\ Len(new) = Len(old) - 1
             /\ LinesWith(new, ref) = {}
             /\ \A k \in 1..Len(new) :
                  new[k] = IF k < LineIdx(old, ref) THEN old[k] ELSE old[k + 1]
        ELSE /\ Len(new) = Len(old)
             /\ \A k \in 1..Len(old) :
                  new[k] = IF k \in LinesWith(old, ref)
                           THEN [old[k] EXCEPT !.quantity = q]
                           ELSE old[k]

C19_OneCartPerUser ==
  \A u \in Users : Len(carts[u]) <= 1

(***************************************************************************)
(* Properties of the status of an order.                                   *)
(***************************************************************************)
\* C20: the status of every order is one of Pending, In-transit and Cancel:
\* an order is created Pending and updateOrderStatus never stores a value
\* outside these three.
C20_StatusWithinEnum ==
  \A o \in 1..Len(orders) :
    orders[o].status \in {"Pending", "In-transit", "Cancel"}

(***************************************************************************)
(* Properties of requests whose store operations may fail.                 *)
(***************************************************************************)
\* C21: every request ends with a response, also when a store read or write
\* fails: no request is ever left with its error escaped and unanswered.
C21_EveryRequestAnswered ==
  \A r \in Requests : req[r].pc # "escaped"

FailedAfterOrder(r) ==
  Decided(r) /\ req[r].status = "Internal" /\ req[r].orderId # 0
\* All the lines of the order of request r are stored.
AllLinesStored(r) ==
  \A k \in 1..Len(req[r].orderItems) : LinesFor(r, k) # {}
\* The number of decrements request r had applied when it failed: the one at
\* req[r].i was the failing one; with every line stored and no decrement
\* pending, the failing operation was the save of the cart.
DecrementsApplied(r) ==
  IF req[r].i > 0 THEN req[r].i - 1
  ELSE IF AllLinesStored(r) THEN Len(req[r].items) ELSE 0

\* C23: when createOrder fails after creating its order, nothing is taken
\* back: the order remains, the lines created remain, the variants keep the
\* decrements applied before the failure, and the cart still holds its lines.
C23_NoRollbackAfterOrder ==
  \A r \in Requests :
    FailedAfterOrder(r) =>
      /\ req[r].orderId \in 1..Len(orders)
      /\ orders[req[r].orderId].userId = Caller(r)
      /\ \A k \in req[r].created : LinesFor(r, k) # {}
      /\ req[r].i > 0 => AllLinesStored(r)
      /\ \A v \in DOMAIN variants :
           variants[v].quantity =
             Pre(r).variants[v].quantity
               - OrderedQty(SubSeq(req[r].items, 1, DecrementsApplied(r)), v)
      /\ carts[Caller(r)] = Pre(r).carts[Caller(r)]
      /\ carts[Caller(r)][1].items = req[r].items

\* The partially applied state: an order of two lines failed at its second
\* decrement, so the first variant is decremented and the second is not, the
\* order and both lines are stored and the cart is as it was.
C23_Witness ==
  \E r \in Requests :
    /\ FailedAfterOrder(r)
    /\ Len(req[r].items) = 2
    /\ req[r].i = 2
    /\ AllLinesStored(r)
    /\ variants[req[r].items[1].productVariant].quantity
         < Pre(r).variants[req[r].items[1].productVariant].quantity
    /\ variants[req[r].items[2].productVariant].quantity
         = Pre(r).variants[req[r].items[2].productVariant].quantity
    /\ Len(carts[Caller(r)][1].items) = 2

(***************************************************************************)
(* Properties of a createOrder repeated after a failed one.                *)
(***************************************************************************)
\* Request r2 is the decided repeat, by the same user, of request r1, which
\* failed after decrementing at least one variant and before clearing the
\* cart; the repeat itself met no store failure.
Repeats(r1, r2) ==
  /\ r1 # r2
  /\ FailedAfterOrder(r1) /\ DecrementsApplied(r1) >= 1
  /\ Decided(r2) /\ req[r2].status # "Internal"
  /\ Caller(r2) = Caller(r1)
  /\ Pre(r2).orders # Pre(r1).orders

\* The repeat went through: a second order for the same lines, and every
\* variant decremented by what the failed call took and again by the whole
\* cart.
DecrementedAgain(r1, r2) ==
  /\ Succeeded(r2)
  /\ req[r2].items = req[r1].items
  /\ req[r2].orderId # req[r1].orderId
  /\ req[r2].orderId \in 1..Len(orders)
  /\ orders[req[r2].orderId].userId = Caller(r1)
  /\ orders[req[r1].orderId].userId = Caller(r1)
  /\ \A k \in 1..Len(req[r2].items) : LinesFor(r2, k) # {}
  /\ \A v \in DOMAIN variants :
       variants[v].quantity =
         Pre(r1).variants[v].quantity
           - OrderedQty(SubSeq(req[r1].items, 1, DecrementsApplied(r1)), v)
           - OrderedQty(req[r2].items, v)

\* C24 as stated: a createOrder repeated after a call that failed past its
\* decrements always decrements those variants a second time and creates a
\* second order for the same cart content.
C24_RepeatAlwaysDecrementsAgain ==
  \A r1, r2 \in Requests : Repeats(r1, r2) => DecrementedAgain(r1, r2)

\* C24: a createOrder repeated after a call that failed past its decrements
\* decrements those variants a second time and creates a second order for
\* the same cart content when the stock left still covers every line of the
\* cart; when it no longer covers a line the repeat is answered
\* InsufficientStock and writes nothing.
C24_RepeatDecrementsAgainWhenCovered ==
  \A r1, r2 \in Requests :
    Repeats(r1, r2) =>
      IF \E k \in 1..Len(PreItems(r2)) : Short(r2, k)
      THEN /\ req[r2].status = "InsufficientStock"
           /\ variants = Pre(r2).variants
           /\ orders = Pre(r2).orders
           /\ orderProducts = Pre(r2).orderProducts
      ELSE DecrementedAgain(r1, r2)

\* A repeat that went through: two orders of the same user and a variant two
\* units below what the first call found.
C24_Witness ==
  \E r1, r2 \in Requests :
    /\ Repeats(r1, r2)
    /\ Succeeded(r2)
    /\ Len(orders) = 2
    /\ \E v \in DOMAIN variants :
         variants[v].quantity = Pre(r1).variants[v].quantity - 2

(***************************************************************************)
(* Properties of createOrder in its product-stock revision.                *)
(***************************************************************************)
\* C25: when createOrder in its product-stock revision fails at a line, the
\* stock of every record is what it was before the request.
C25_FailedPlacementLeavesStock ==
  \A u \in Users :
    createOrder_productStockStatus(u) # "OK"
      => createOrder_productStockVariants(u) = variants

(***************************************************************************)
(* Properties of the order of the writes of one createOrder request.       *)
(***************************************************************************)
\* The variants as request r found them, less the lines 1..n of its cart.
DecrementedUpTo(r, n) ==
  [v \in DOMAIN Pre(r).variants |->
     [Pre(r).variants[v] EXCEPT
        !.quantity = @ - OrderedQty(SubSeq(req[r].items, 1, n), v)]]

\* The writes of request r come in stages: nothing is written before the
\* order; while lines are being created the order exists and no variant is
\* decremented; decrements start with every line stored and are applied one
\* at a time in the order of the lines; the cart is untouched until every
\* decrement is applied.
WritesInStages(r) ==
  /\ req[r].pc \in {"variant", "product", "order"} =>
       /\ orders = Pre(r).orders
       /\ orderProducts = Pre(r).orderProducts
       /\ variants = Pre(r).variants
       /\ carts = Pre(r).carts
  /\ req[r].pc = "lines" =>
       /\ Len(orders) = Len(Pre(r).orders) + 1
       /\ req[r].orderId = Len(orders)
       /\ \A k \in 1..Len(req[r].orderItems) :
            LinesFor(r, k) # {} <=> k \in req[r].created
       /\ variants = Pre(r).variants
       /\ carts = Pre(r).carts
  /\ req[r].pc = "dec" =>
       /\ AllLinesStored(r)
       /\ variants = DecrementedUpTo(r, req[r].i - 1)
       /\ carts = Pre(r).carts
  /\ req[r].pc = "clear" =>
       /\ AllLinesStored(r)
       /\ variants = DecrementedUpTo(r, Len(req[r].items))
       /\ carts = Pre(r).carts
  /\ Succeeded(r) =>
       /\ AllLinesStored(r)
       /\ variants = DecrementedUpTo(r, Len(req[r].items))
       /\ carts = Cleared(Pre(r).carts, Caller(r))

\* The lines stored so far are the first ones of the order: no line is
\* stored before the line ahead of it.
LinesOneAfterAnother(r) ==
  \A k \in req[r].created : \A j \in 1..k : j \in req[r].created

\* C26 as stated: the writes of createOrder come strictly one after another:
\* the order, then each line only when the line before it is stored, then
\* the decrements, then the cart.
C26_StrictlySequential ==
  \A r \in Requests : WritesInStages(r) /\ LinesOneAfterAnother(r)

\* C26: the order is created before any line; the lines are created
\* together and joined, so they are stored in any order; every line is
\* stored before the first decrement; the decrements are applied one at a
\* time in the order of the lines, and all of them before the cart is
\* cleared.
C26_SequentialButForLines ==
  \A r \in Requests : WritesInStages(r)

\* A request of two lines between its two decrements: both lines stored, the
\* first variant decremented, the second not, the cart not cleared.
C26_Witness ==
  \E r \in Requests :
    /\ req[r].pc = "dec" /\ req[r].i = 2
    /\ Len(req[r].items) = 2
    /\ AllLinesStored(r)
    /\ variants # Pre(r).variants
    /\ variants = DecrementedUpTo(r, 1)
    /\ Len(carts[Caller(r)][1].items) = 2

(***************************************************************************)
(* Properties of the seeding of the catalog.                               *)
(***************************************************************************)
\* C27: when initializeProducts completes, the totalStock of every product
\* is the sum of the quantities of the variants created for it.
C27_SeededTotalStockIsSum ==
  [][InitializeProducts =>
       \A p \in DOMAIN products' :
         products'[p].totalStock = DirectSum(variants', p)]_vars

(***************************************************************************)
(* Properties of a restockVariant interleaved with a createOrder.          *)
(***************************************************************************)
\* Request r is a restockVariant that was answered 200.
Restocked200(r) ==
  Decided(r) /\ req[r].status = "OK" /\ req[r].variant # "none"
\* The amount request r restocked: what it held in memory less what it read.
RestockedAmount(r) ==
  req[r].quantity - Pre(r).variants[req[r].variant].quantity
\* The one of two requests that arrived first.
Earlier(r1, r2) == IF r1 < r2 THEN r1 ELSE r2

\* C28: once a createOrder and a restockVariant of a variant the order
\* consumes have both completed, however they interleaved, the quantity of
\* the variant is what it was before the two, plus the amount restocked,
\* less the quantity ordered.
C28_NeitherUpdateLost ==
  \A r1, r2 \in Requests :
    (Succeeded(r1) /\ Restocked200(r2)
       /\ req[r2].variant \in Consumed(req[r1].items)) =>
      variants[req[r2].variant].quantity =
        Pre(Earlier(r1, r2)).variants[req[r2].variant].quantity
          + RestockedAmount(r2)
          - OrderedQty(req[r1].items, req[r2].variant)

(***************************************************************************)
(* Properties of interleaved createOrder requests of one user.             *)
(***************************************************************************)
\* C29: two createOrder requests of the same user that read the same cart
\* lines do not both succeed: the lines of a cart become at most one order.
C29_CartOrderedAtMostOnce ==
  \A r1, r2 \in Requests :
    (r1 # r2 /\ Caller(r1) = Caller(r2) /\ req[r1].items = req[r2].items)
      => ~(Succeeded(r1) /\ Succeeded(r2))

(***************************************************************************)
(* Conservation of stock.                                                  *)
(***************************************************************************)
RECURSIVE LinesQuantity(_)
\* The quantities of a set of order lines, summed.
LinesQuantity(lines) ==
  IF lines = {} THEN 0
  ELSE LET l == CHOOSE x \in lines : TRUE
       IN l.quantity + LinesQuantity(lines \ {l})

\* What is in stock of product p plus what was ordered of it.
Held(vs, lines, p) ==
  DirectSum(vs, p) + LinesQuantity({l \in lines : l.productId = p})

\* C30: with restockVariant and createOrder run one at a time and not
\* failing, what is in stock of a product plus what its order lines hold is
\* what the product started with plus what was restocked: a successful
\* createOrder leaves that sum as it found it, a restock raises it by the
\* restocked amount, and nothing else changes it.
C30_StockConserved ==
  /\ [](\A r \in Requests :
          Succeeded(r) =>
            \A p \in ProductIds :
              Held(variants, orderProducts, p)
                = Held(Pre(r).variants, Pre(r).orderProducts, p))
  /\ [][(InFlight = {} /\ InFlight' = {}
           /\ <<variants, orderProducts>>' # <<variants, orderProducts>>)
          => /\ orderProducts' = orderProducts
             /\ \E p \in ProductIds, size \in Sizes, color \in Colors,
                   q \in ReqQuantities :
                  /\ q > 0
                  /\ restockVariant(p, size, color, q)
                  /\ Held(variants', orderProducts', p)
                       = Held(variants, orderProducts, p) + q
                  /\ \A p2 \in ProductIds \ {p} :
                       Held(variants', orderProducts', p2)
                         = Held(variants, orderProducts, p2)
       ]_vars

\* An order took two units of the product and the stock is full again: the
\* order lines hold two units and two or more units were restocked.
C30_Witness ==
  /\ AfterOrders
  /\ LinesQuantity({l \in orderProducts : l.productId = "p1"}) = 2
  /\ DirectSum(variants, "p1") = 2 * MaxQty
====
